---- MODULE Spec2Model ----
(***************************************************************************)
(* Model of the FinPro Robo-Advisor recommendation service (src/main.py):  *)
(* start-up loading of the SVD model and the asset catalog, request        *)
(* validation by the RecommendationRequest schema, and the /recommend      *)
(* handler with its cold-start and warm-start rankers.                     *)
(*                                                                         *)
(* Python strings that the code inspects (risk_profile, source) are        *)
(* sequences of one-character strings, so that substring tests and         *)
(* prefixes are computed.  Python exceptions are outcome records.          *)
(***************************************************************************)
EXTENDS Integers, Sequences, FiniteSets, TLC

\* ---------------------------------------------------------------- bounds
MaxRows == 2      \* rows in the catalog file
MaxScore == 2     \* predicted affinities range over 1..MaxScore

\* ------------------------------------------------------ program constants
DefaultTopK == 5
MinTopK == 1
MaxTopK == 50

\* ------------------------------------------------------------ string data
Conservative == <<"C", "o", "n", "s", "e", "r", "v", "a", "t", "i", "v", "e">>
Balanced == <<"B", "a", "l", "a", "n", "c", "e", "d">>
Aggressive == <<"A", "g", "g", "r", "e", "s", "s", "i", "v", "e">>
Moderate == <<"M", "o", "d", "e", "r", "a", "t", "e">>
VeryConservative == <<"V", "e", "r", "y", " ">> \o Conservative
NonAggressive == <<"N", "o", "n", "-">> \o Aggressive
RuleBasedPrefix == <<"R", "u", "l", "e", "-", "B", "a", "s", "e", "d">>
AIModelPrefix == <<"A", "I", " ", "M", "o", "d", "e", "l">>
AISource == AIModelPrefix \o <<" ", "(", "S", "V", "D", ")">>

\* Python's  sub in s  on strings
Contains(sub, s) ==
    \E i \in 0..(Len(s) - Len(sub)) : SubSeq(s, i + 1, i + Len(sub)) = sub

StartsWith(s, p) == Len(s) >= Len(p) /\ SubSeq(s, 1, Len(p)) = p

\* Optional[str]: None or a string
PyNone == [isNone |-> TRUE, str |-> <<>>]
PyStr(s) == [isNone |-> FALSE, str |-> s]

\* f"Rule-Based ({request.risk_profile})"
RuleBasedSource(risk_profile) ==
    RuleBasedPrefix \o <<" ", "(">> \o
    (IF risk_profile.isNone THEN <<"N", "o", "n", "e">> ELSE risk_profile.str)
    \o <<")">>

\* ------------------------------------------------------------ input sets
ISINs == {"A1", "A2"}
Categories == {"Bond", "Stock", "MTF"}
UserIds == {"u1", "u2", ""}
TrainedUsers == {"u1"}
Scores == 1..MaxScore
RiskProfiles ==
    {PyStr(Conservative), PyStr(Balanced), PyStr(Aggressive), PyStr(Moderate),
     PyStr(VeryConservative), PyStr(NonAggressive), PyStr(<<>>), PyNone}
TopKs == {-1, 0, 1, 2, MaxTopK + 1}

AssetRows == [ISIN : ISINs, assetCategory : Categories]
RowLists == UNION {[1..n -> AssetRows] : n \in 0..MaxRows}

\* asset_information.csv as found at start-up
FileMissing == [exists |-> FALSE, columns |-> {}, rows |-> <<>>]
FileNoISIN == [exists |-> TRUE, columns |-> {"assetCategory"}, rows |-> <<>>]
AssetFiles ==
    {FileMissing, FileNoISIN} \cup
    {[exists |-> TRUE, columns |-> {"ISIN", "assetCategory"}, rows |-> r] :
        r \in RowLists}

\* model_svd.pkl as found at start-up
NoModel == [loaded |-> FALSE, trainset |-> {}, est |-> <<>>]
Models ==
    {[loaded |-> TRUE, trainset |-> TrainedUsers, est |-> e] :
        e \in [TrainedUsers \X ISINs -> Scores]}
ModelFiles ==
    {[state |-> "absent", model |-> NoModel],
     [state |-> "corrupt", model |-> NoModel]} \cup
    {[state |-> "ok", model |-> m] : m \in Models}

\* JSON bodies posted to /recommend: any subset of the three keys
FullBodies == [user_id : UserIds, risk_profile : RiskProfiles, top_k : TopKs]
PartialBodies ==
    {[user_id |-> u, top_k |-> k] : u \in {"u1", "u2"}, k \in {1, 2}} \cup
    {[user_id |-> u, risk_profile |-> r] :
        u \in {"u1", "u2"}, r \in {PyStr(Conservative), PyNone}} \cup
    {[user_id |-> u] : u \in {"u1", "u2"}} \cup
    {[risk_profile |-> PyStr(Balanced), top_k |-> 1], [top_k |-> 0]}
Bodies == FullBodies \cup PartialBodies

\* -------------------------------------------------------- pandas / Python
EmptyDataFrame == [columns |-> {}, rows |-> <<>>]

RECURSIVE Unique(_)
\* Series.unique(): distinct values in order of first appearance
Unique(s) ==
    IF s = <<>> THEN <<>>
    ELSE LET init == Unique(SubSeq(s, 1, Len(s) - 1))
             last == s[Len(s)]
         IN IF \E i \in 1..Len(init) : init[i] = last
            THEN init ELSE Append(init, last)

FirstNOffByOne(rows, n) ==
    IF n >= 0 THEN SubSeq(rows, 1, IF n + 1 < Len(rows) THEN n + 1 ELSE Len(rows))
    ELSE SubSeq(rows, 1, Len(rows) + n)

\* DataFrame.head(n) and list[:n]: first n elements; for n < 0 all but the
\* last -n
FirstN(rows, n) ==
    IF n >= 0 THEN SubSeq(rows, 1, IF n < Len(rows) THEN n ELSE Len(rows))
    ELSE SubSeq(rows, 1, Len(rows) + n)

InsertTiesFirst(x, sorted) ==
    LET before == {i \in 1..Len(sorted) : sorted[i][2] > x[2]}
        n == Cardinality(before)
    IN SubSeq(sorted, 1, n) \o <<x>> \o SubSeq(sorted, n + 1, Len(sorted))

InsertAscending(x, sorted) ==
    LET before == {i \in 1..Len(sorted) : sorted[i][2] <= x[2]}
        n == Cardinality(before)
    IN SubSeq(sorted, 1, n) \o <<x>> \o SubSeq(sorted, n + 1, Len(sorted))

\* one insertion of the stable descending sort: x goes after every element
\* whose key is >= its own
InsertDescending(x, sorted) ==
    LET before == {i \in 1..Len(sorted) : sorted[i][2] >= x[2]}
        n == Cardinality(before)
    IN SubSeq(sorted, 1, n) \o <<x>> \o SubSeq(sorted, n + 1, Len(sorted))

RECURSIVE SortByEstDescending(_)
\* predictions.sort(key=lambda x: x[1], reverse=True); list.sort is stable
\* and reverse=True keeps the original order of equal keys
SortByEstDescending(predictions) ==
    IF predictions = <<>> THEN <<>>
    ELSE InsertDescending(predictions[Len(predictions)],
             SortByEstDescending(SubSeq(predictions, 1, Len(predictions) - 1)))

\* ------------------------------------------------------------ the rankers
Raised(exc) == [ok |-> FALSE, exc |-> exc, value |-> <<>>]
Returned(v) == [ok |-> TRUE, exc |-> "", value |-> v]

TargetCatsNamedBalanced(risk_profile) ==
    IF Contains(Conservative, risk_profile) THEN {"Bond"}
    ELSE IF Contains(Aggressive, risk_profile) THEN {"Stock"}
    ELSE IF Contains(Balanced, risk_profile) THEN {"Stock", "MTF"}
    ELSE {}

\* the if / elif / else of get_cold_start_recs
TargetCats(risk_profile) ==
    IF Contains(Conservative, risk_profile) THEN {"Bond"}
    ELSE IF Contains(Aggressive, risk_profile) THEN {"Stock"}
    ELSE {"Stock", "MTF"}

IsEligible(row, target_cats) == row.assetCategory \in target_cats

get_cold_start_recs(df, risk_profile, top_k) ==
    IF risk_profile.isNone THEN Raised("TypeError")
    ELSE IF "assetCategory" \notin df.columns THEN Raised("KeyError")
    ELSE LET target_cats == TargetCats(risk_profile.str)
             candidates == SelectSeq(df.rows,
                               LAMBDA row : IsEligible(row, target_cats))
             head == FirstN(candidates, top_k)
         IN Returned([i \in 1..Len(head) |-> head[i].ISIN])

\* MODEL_SVD.predict(user_id, asset_id).est
Predict(model, user_id, asset_id) == model.est[<<user_id, asset_id>>]

get_warm_start_recs(model, asset_ids, user_id, top_k) ==
    LET predictions == [i \in 1..Len(asset_ids) |->
                           <<asset_ids[i], Predict(model, user_id, asset_ids[i])>>]
        sorted == SortByEstDescending(predictions)
        top == FirstN(sorted, top_k)
    IN [i \in 1..Len(top) |-> top[i][1]]

UseAIWithoutProbe(model, user_id) == model.loaded

\* lines 66-72: the model is loaded and trainset.to_inner_uid does not raise
\* ValueError
UseAI(model, user_id) == model.loaded /\ user_id \in model.trainset

\* ------------------------------------------------------------------ state
VARIABLES
    modelFile,      \* model_svd.pkl on disk
    assetFile,      \* asset_information.csv on disk
    MODEL_SVD,
    df_assets,
    ALL_ASSET_IDS,
    pc,             \* position of the process / of the request in flight
    request,        \* the validated RecommendationRequest
    use_ai,
    recs,
    source,
    response

vars == <<modelFile, assetFile, MODEL_SVD, df_assets, ALL_ASSET_IDS, pc,
          request, use_ai, recs, source, response>>

NoRequest == [user_id |-> "", risk_profile |-> PyNone, top_k |-> 0]
NoResponse == [kind |-> "none", user_id |-> "", source |-> <<>>,
               recommendations |-> <<>>]

Init ==
    /\ modelFile \in ModelFiles
    /\ assetFile \in AssetFiles
    /\ MODEL_SVD = NoModel
    /\ df_assets = EmptyDataFrame
    /\ ALL_ASSET_IDS = <<>>
    /\ pc = "load_model"
    /\ request = NoRequest
    /\ use_ai = FALSE
    /\ recs = <<>>
    /\ source = <<>>
    /\ response = NoResponse

\* lines 11-17
LoadModel ==
    /\ pc = "load_model"
    /\ IF modelFile.state = "ok"
       THEN MODEL_SVD' = modelFile.model /\ pc' = "load_assets"
       ELSE IF modelFile.state = "absent"
       THEN MODEL_SVD' = NoModel /\ pc' = "load_assets"
       ELSE MODEL_SVD' = MODEL_SVD /\ pc' = "crashed"
    /\ UNCHANGED <<modelFile, assetFile, df_assets, ALL_ASSET_IDS, request,
                   use_ai, recs, source, response>>

\* lines 20-27
LoadAssets ==
    /\ pc = "load_assets"
    /\ IF assetFile.exists /\ "ISIN" \in assetFile.columns
       THEN /\ df_assets' = [columns |-> assetFile.columns,
                             rows |-> assetFile.rows]
            /\ ALL_ASSET_IDS' = Unique([i \in 1..Len(assetFile.rows) |->
                                           assetFile.rows[i].ISIN])
       ELSE /\ df_assets' = EmptyDataFrame
            /\ ALL_ASSET_IDS' = <<>>
    /\ pc' = "idle"
    /\ UNCHANGED <<modelFile, assetFile, MODEL_SVD, request, use_ai, recs,
                   source, response>>

\* RecommendationRequest: user_id is required, the other fields default
Validate(body) ==
    IF "user_id" \notin DOMAIN body THEN Raised("ValidationError")
    ELSE Returned([user_id |-> body.user_id,
                   risk_profile |-> IF "risk_profile" \in DOMAIN body
                                    THEN body.risk_profile ELSE PyStr(Balanced),
                   top_k |-> IF "top_k" \in DOMAIN body
                             THEN body.top_k ELSE DefaultTopK])

\* a POST /recommend arrives and is parsed into the request schema
Receive ==
    /\ pc = "idle"
    /\ \E body \in Bodies :
          LET v == Validate(body)
          IN IF v.ok
             THEN /\ request' = v.value
                  /\ pc' = "classify"
                  /\ response' = NoResponse
             ELSE /\ request' = NoRequest
                  /\ pc' = "done"
                  /\ response' = [NoResponse EXCEPT !.kind = "validation_error"]
    /\ use_ai' = FALSE
    /\ recs' = <<>>
    /\ source' = <<>>
    /\ UNCHANGED <<modelFile, assetFile, MODEL_SVD, df_assets, ALL_ASSET_IDS>>

\* lines 66-74
Classify ==
    /\ pc = "classify"
    /\ use_ai' = UseAI(MODEL_SVD, request.user_id)
    /\ pc' = IF use_ai' THEN "warm" ELSE "cold"
    /\ UNCHANGED <<modelFile, assetFile, MODEL_SVD, df_assets, ALL_ASSET_IDS,
                   request, recs, source, response>>

\* lines 77-79, get_cold_start_recs raising or returning
ColdPath ==
    /\ pc = "cold"
    /\ LET outcome == get_cold_start_recs(df_assets, request.risk_profile,
                                          request.top_k)
       IN IF outcome.ok
          THEN /\ recs' = outcome.value
               /\ source' = RuleBasedSource(request.risk_profile)
               /\ pc' = "assemble"
               /\ response' = response
          ELSE \* the exception leaves the handler: the framework answers
               \* 500 "Internal Server Error", no body of the response schema
               /\ recs' = recs
               /\ source' = source
               /\ pc' = "done"
               /\ response' = [NoResponse EXCEPT !.kind = "internal_error"]
    /\ UNCHANGED <<modelFile, assetFile, MODEL_SVD, df_assets, ALL_ASSET_IDS,
                   request, use_ai>>

\* lines 74-76
WarmPath ==
    /\ pc = "warm"
    /\ recs' = get_warm_start_recs(MODEL_SVD, ALL_ASSET_IDS, request.user_id,
                                   request.top_k)
    /\ source' = AISource
    /\ pc' = "assemble"
    /\ UNCHANGED <<modelFile, assetFile, MODEL_SVD, df_assets, ALL_ASSET_IDS,
                   request, use_ai, response>>

\* lines 81-85
Assemble ==
    /\ pc = "assemble"
    /\ response' = [kind |-> "ok", user_id |-> request.user_id,
                    source |-> source, recommendations |-> recs]
    /\ pc' = "done"
    /\ UNCHANGED <<modelFile, assetFile, MODEL_SVD, df_assets, ALL_ASSET_IDS,
                   request, use_ai, recs, source>>

\* lines 87-89
health_check ==
    /\ pc = "idle"
    /\ response' = [NoResponse EXCEPT !.kind = "health"]
    /\ pc' = "done"
    /\ UNCHANGED <<modelFile, assetFile, MODEL_SVD, df_assets, ALL_ASSET_IDS,
                   request, use_ai, recs, source>>

\* the response has been sent; the server waits for the next request
NextRequest ==
    /\ pc = "done"
    /\ pc' = "idle"
    /\ request' = NoRequest
    /\ use_ai' = FALSE
    /\ recs' = <<>>
    /\ source' = <<>>
    /\ response' = NoResponse
    /\ UNCHANGED <<modelFile, assetFile, MODEL_SVD, df_assets, ALL_ASSET_IDS>>

Next ==
    \/ LoadModel
    \/ LoadAssets
    \/ Receive
    \/ Classify
    \/ ColdPath
    \/ WarmPath
    \/ Assemble
    \/ health_check
    \/ NextRequest

Spec == Init /\ [][Next]_vars

\* ============================================================ properties
\* the handler has answered with a body of the response schema
Responded == pc = "done" /\ response.kind = "ok"

\* the cold-start ranker has been called for the request in flight and has
\* returned or raised
AfterCold ==
    /\ ~use_ai
    /\ \/ pc = "assemble"
       \/ pc = "done" /\ response.kind \in {"ok", "internal_error"}

RiskIsString == ~request.risk_profile.isNone
ExactProfiles == {Conservative, Balanced, Aggressive}

NoRepeats(s) == \A i, j \in 1..Len(s) : i /= j => s[i] /= s[j]
Occurs(x, s) == \E i \in 1..Len(s) : s[i] = x
PositionOf(x, s) == CHOOSE i \in 1..Len(s) : s[i] = x
Min(a, b) == IF a < b THEN a ELSE b

\* the mapping of the three risk profiles to eligible categories
MappedCategories(profile) ==
    IF profile = Conservative THEN {"Bond"}
    ELSE IF profile = Aggressive THEN {"Stock"}
    ELSE {"Stock", "MTF"}

\* indices of the catalog rows whose category is in cats
EligibleIndices(cats) ==
    {i \in 1..Len(df_assets.rows) : df_assets.rows[i].assetCategory \in cats}

\* s is the first m identifiers, in catalog order, of the rows at idx
IsFirstOf(s, m, idx) ==
    /\ Len(s) = m
    /\ \A j \in 1..m :
          \E i \in idx : /\ Cardinality({h \in idx : h < i}) = j - 1
                         /\ s[j] = df_assets.rows[i].ISIN

\* C1: every response carries between 0 and top_k recommendations.
C1_LengthWithinTopK ==
    Responded =>
        /\ 0 <= Len(response.recommendations)
        /\ Len(response.recommendations) <= request.top_k

\* C2: a request with an empty user_id or with top_k outside 1..50 is
\* rejected before classification or ranking: it never reaches the
\* classifier, a ranker or a response with recommendations.
C2_InvalidRejected ==
    (pc \in {"classify", "cold", "warm", "assemble"} \/ Responded) =>
        /\ request.user_id /= ""
        /\ request.top_k \in MinTopK..MaxTopK

\* C3: the request takes the warm path, and a response's source starts with
\* "AI Model", exactly when the model is loaded and the user id is in its
\* training set; otherwise the request takes the cold path and a response's
\* source starts with "Rule-Based".
C3_Classification ==
    LET known == MODEL_SVD.loaded /\ request.user_id \in MODEL_SVD.trainset
    IN /\ pc \in {"cold", "warm"} => (pc = "warm" <=> known)
       /\ pc = "assemble" => (StartsWith(source, AIModelPrefix) <=> known)
       /\ Responded =>
             /\ StartsWith(response.source, AIModelPrefix) <=> known
             /\ ~known => StartsWith(response.source, RuleBasedPrefix)
             /\ ~(StartsWith(response.source, AIModelPrefix)
                  /\ StartsWith(response.source, RuleBasedPrefix))

C3_Witness ==
    /\ Responded
    /\ request.user_id \in MODEL_SVD.trainset
    /\ StartsWith(response.source, AIModelPrefix)

\* C4: for one of the three risk profiles and K >= 1, what
\* get_cold_start_recs returns is the first min(K, n) identifiers, in catalog
\* order, of the n catalog rows whose category is in the mapped set.
C4_ColdStartFirstK ==
    (pc = "assemble" /\ ~use_ai /\ RiskIsString
        /\ request.risk_profile.str \in ExactProfiles /\ request.top_k >= 1) =>
        LET idx == EligibleIndices(MappedCategories(request.risk_profile.str))
        IN IsFirstOf(recs, Min(request.top_k, Cardinality(idx)), idx)

C4_Witness ==
    /\ pc = "assemble" /\ ~use_ai /\ RiskIsString
    /\ request.risk_profile.str = Balanced
    /\ request.top_k = 1
    /\ Cardinality(EligibleIndices({"Stock", "MTF"})) = 2
    /\ Len(df_assets.rows) = 2
    /\ df_assets.rows[1].ISIN /= df_assets.rows[2].ISIN
    /\ recs = <<df_assets.rows[1].ISIN>>

\* what the cold-start call of the request in flight did equals what
\* get_cold_start_recs does for "Balanced" with the same catalog and top_k
SameAsBalanced ==
    LET b == get_cold_start_recs(df_assets, PyStr(Balanced), request.top_k)
    IN /\ pc = "assemble" => b.ok /\ b.value = recs
       /\ (pc = "done" /\ response.kind = "ok") =>
             b.ok /\ b.value = response.recommendations
       /\ (pc = "done" /\ response.kind = "internal_error") => ~b.ok

\* C5 (as stated): every risk_profile string that is not exactly one of
\* Conservative, Balanced, Aggressive gets the cold-start result of
\* "Balanced".
C5_UnrecognizedIsBalanced ==
    (AfterCold /\ RiskIsString
        /\ request.risk_profile.str \notin ExactProfiles) => SameAsBalanced

\* C5 (amended): every risk_profile string that contains neither
\* "Conservative" nor "Aggressive" gets the cold-start result of "Balanced".
C5_NoKeywordIsBalanced ==
    (AfterCold /\ RiskIsString
        /\ ~Contains(Conservative, request.risk_profile.str)
        /\ ~Contains(Aggressive, request.risk_profile.str)) => SameAsBalanced

C5_Witness ==
    /\ pc = "assemble" /\ ~use_ai /\ RiskIsString
    /\ request.risk_profile.str = Moderate
    /\ request.top_k = 2
    /\ Len(recs) = 2
    /\ \E i \in 1..Len(df_assets.rows) : df_assets.rows[i].assetCategory = "MTF"

\* C6: no response lists an asset identifier more than once.
C6_NoDuplicates == Responded => NoRepeats(response.recommendations)

\* C7: for a known user and K >= 1 the warm response is a top-K list by
\* predicted affinity: affinities do not increase along the list, and no
\* catalog asset left out has a strictly higher affinity than a listed one.
C7_WarmTopK ==
    (Responded /\ use_ai /\ request.top_k >= 1) =>
        LET r == response.recommendations
            aff(a) == Predict(MODEL_SVD, request.user_id, a)
        IN /\ \A i, j \in 1..Len(r) : i < j => aff(r[i]) >= aff(r[j])
           /\ \A n \in 1..Len(ALL_ASSET_IDS) :
                 ~Occurs(ALL_ASSET_IDS[n], r) =>
                     \A i \in 1..Len(r) : aff(ALL_ASSET_IDS[n]) <= aff(r[i])
           /\ Len(r) = Min(request.top_k, Len(ALL_ASSET_IDS))
           /\ \A i \in 1..Len(r) : Occurs(r[i], ALL_ASSET_IDS)

C7_Witness ==
    /\ Responded /\ use_ai
    /\ request.top_k = 1
    /\ Len(ALL_ASSET_IDS) = 2
    /\ Predict(MODEL_SVD, request.user_id, ALL_ASSET_IDS[2])
          > Predict(MODEL_SVD, request.user_id, ALL_ASSET_IDS[1])
    /\ response.recommendations = <<ALL_ASSET_IDS[2]>>

\* C8: when the catalog file was missing or malformed at start-up, every
\* cold-path request ends in a successful response with zero
\* recommendations.
C8_EmptyCatalogServes ==
    (pc = "done" /\ response.kind \in {"ok", "internal_error"} /\ ~use_ai
        /\ (~assetFile.exists \/ "ISIN" \notin assetFile.columns)) =>
        /\ response.kind = "ok"
        /\ response.recommendations = <<>>

\* C9: every request accepted by the schema ends in a full response or a
\* structured error; no exception leaves the handler.
C9_NoInternalError ==
    pc = "done" => response.kind \in {"ok", "validation_error", "health"}

\* C10: in a warm response, catalog assets of equal predicted affinity keep
\* their ALL_ASSET_IDS order: the later one is listed only if the earlier
\* one is, and then after it.
C10_TiesInCatalogOrder ==
    (Responded /\ use_ai) =>
        LET r == response.recommendations
            aff(a) == Predict(MODEL_SVD, request.user_id, a)
        IN \A i, j \in 1..Len(ALL_ASSET_IDS) :
              (i < j /\ aff(ALL_ASSET_IDS[i]) = aff(ALL_ASSET_IDS[j])) =>
                  /\ Occurs(ALL_ASSET_IDS[j], r) => Occurs(ALL_ASSET_IDS[i], r)
                  /\ (Occurs(ALL_ASSET_IDS[i], r) /\ Occurs(ALL_ASSET_IDS[j], r))
                        => PositionOf(ALL_ASSET_IDS[i], r)
                              < PositionOf(ALL_ASSET_IDS[j], r)

C10_Witness ==
    /\ Responded /\ use_ai
    /\ request.top_k = 2
    /\ ALL_ASSET_IDS = <<"A2", "A1">>
    /\ Predict(MODEL_SVD, request.user_id, "A1")
          = Predict(MODEL_SVD, request.user_id, "A2")
    /\ response.recommendations = <<"A2", "A1">>
====
